---- MODULE Spec2Model ----
(***************************************************************************)
(* A model of the configuration manager of xgfone/go-config: the Config    *)
(* of manager.go with its parser pipeline (Parse), its parser list, its    *)
(* group map and the priority-arbitrated SetOptValue.                      *)
(*                                                                         *)
(* A Go string is a sequence of symbols (<<"a", ".", "b">> is "a.b"); the  *)
(* symbol "DEFAULT" stands for the seven letters of the default name.      *)
(* A Go nil is Nil.  A panic is recorded in lastOp.out and changes nothing *)
(* else, except that a panic raised by a call made from inside a hook may  *)
(* unwind the running Parse.                                               *)
(***************************************************************************)
EXTENDS Integers, Sequences, FiniteSets, TLC

VARIABLES
    parsed,       \* Config.parsed
    isRequired,   \* Config.isRequired
    isDebug,      \* Config.isDebug
    isPanic,      \* Config.isPanic
    isZero,       \* Config.isZero
    parsers,      \* Config.parsers: the elements of the slice
    parsersCap,   \* Config.parsers: the capacity of its backing array
    groupSep,     \* Config.groupSep
    groupName,    \* Config.groupName
    groupPrefix,  \* Config.groupPrefix
    watch,        \* Config.watch
    groups,       \* Config.groups: key -> the OptGroup stored under it
    validators,   \* Config.validators
    pc,           \* where the running Parse is: [phase, i, in]
    rng,          \* the slice the running `for range c.parsers` iterates
    ret,          \* what the last Parse call returned
    trace,        \* history: the hooks the last Parse call invoked, in order
    lastOp,       \* history: the last call of the API and how it ended
    writeLog,     \* history: the writes that reached each option's setter
    parseBegun,   \* history: Parse was called at least once
    atCall,       \* history: c.parsers when Parse was last called
    calls,        \* the SetOptValue call each goroutine is making
    mu,           \* the goroutine holding the lock of the default group
    stack,        \* the Parse calls suspended in a Pre hook that called Parse
    ran,          \* history: the Parse and Post hooks invoked since NewConfig
    option,       \* the option the program last constructed
    result        \* what the last call of a method of that option gave

vars == <<parsed, isRequired, isDebug, isPanic, isZero, parsers, parsersCap,
          groupSep, groupName, groupPrefix, watch, groups, validators,
          pc, rng, ret, trace, lastOp, writeLog, parseBegun, atCall,
          calls, mu, stack, ran, option, result>>

Nil == "nil"

-----------------------------------------------------------------------------
(* Bounds of the model.                                                    *)

\* the longest parser list AddParser builds
MaxParsers == 2
\* the most validators RegisterStruct collects
MaxValidators == 2
\* the most writes logged for one option
MaxWrites == 3
\* the largest priority a write is tagged with
MaxPriority == 3
\* the goroutines that call SetOptValue at the same time
MaxThreads == 2
\* the most Parse calls suspended at a time
MaxDepth == 1
\* the longest parser list of a program that only edits the list
MaxListed == 3

-----------------------------------------------------------------------------
(* Strings: package strings, on sequences of symbols.                      *)

HasPrefix(s, p) ==
    /\ Len(p) <= Len(s)
    /\ SubSeq(s, 1, Len(p)) = p

\* mutant of TrimPrefix: nothing is taken off
TrimPrefixNone(s, p) == s

TrimPrefix(s, p) ==
    IF HasPrefix(s, p) THEN SubSeq(s, Len(p) + 1, Len(s)) ELSE s

\* the least index at which sep occurs in s, 0 when it does not
Index(s, sep) ==
    LET at == {i \in 1..(Len(s) - Len(sep) + 1) :
                  SubSeq(s, i, i + Len(sep) - 1) = sep}
    IN  IF at = {} THEN 0 ELSE CHOOSE i \in at : \A j \in at : i <= j

\* mutant of Split: s is cut at the first sep only
SplitOnce(s, sep) ==
    LET i == Index(s, sep)
    IN  IF i = 0 THEN <<s>>
        ELSE <<SubSeq(s, 1, i - 1), SubSeq(s, i + Len(sep), Len(s))>>

RECURSIVE Split(_, _)
Split(s, sep) ==
    LET i == Index(s, sep)
    IN  IF i = 0 THEN <<s>>
        ELSE <<SubSeq(s, 1, i - 1)>> \o Split(SubSeq(s, i + Len(sep), Len(s)), sep)

RECURSIVE Join(_, _)
Join(elems, sep) ==
    IF Len(elems) = 0 THEN <<>>
    ELSE IF Len(elems) = 1 THEN elems[1]
    ELSE elems[1] \o sep \o Join(Tail(elems), sep)

\* strings.Trim(s, cutset): drop the leading and trailing symbols of cutset
RECURSIVE TrimLeft(_, _)
TrimLeft(s, cutset) ==
    IF Len(s) > 0 /\ \E k \in 1..Len(cutset) : cutset[k] = s[1]
    THEN TrimLeft(Tail(s), cutset) ELSE s

RECURSIVE TrimRight(_, _)
TrimRight(s, cutset) ==
    IF Len(s) > 0 /\ \E k \in 1..Len(cutset) : cutset[k] = s[Len(s)]
    THEN TrimRight(SubSeq(s, 1, Len(s) - 1), cutset) ELSE s

Trim(s, cutset) == TrimRight(TrimLeft(s, cutset), cutset)

-----------------------------------------------------------------------------
(* The collaborators: parsers, validators, observers, options.             *)

DefaultGroupName == <<"DEFAULT">>

\* the parsers a program registers; Name() is the parser itself
Parsers == {"p1", "p2", "p3"}

\* Parser.Priority()
Priority(p) == CASE p = "p1" -> 1 [] p = "p2" -> 2 [] OTHER -> 2

\* the errors a hook or a validator returns
HookErrs == {"e1"}

\* the values a source writes
Values == {"v1", "v2"}

ErrParsed == "ErrParsed"

ErrNotParsed == "ErrNotParsed"


\* the structs a program registers; "s0" has no Validate method
Structs == {"s0", "s1", "s2"}

IsStructValidator(s) == s # "s0"

\* the change observers a program installs
Observers == {"f1", "f2"}

-----------------------------------------------------------------------------
(* Control of the running Parse.                                           *)

Idle == [phase |-> "idle", i |-> 0, in |-> FALSE]

NoRange == [len |-> 0, shared |-> TRUE, arr |-> <<>>]

NoRet == [kind |-> "none", stage |-> "none", err |-> Nil, by |-> Nil, at |-> <<>>]

\* the API is called by the program between Parse calls, or by a running hook
CanCall == pc.phase = "idle" \/ pc.in

\* element i of the slice the running range loop iterates
RngAt(i) == IF rng.shared THEN parsers[i] ELSE rng.arr[i]

settings == <<isRequired, isDebug, isPanic, isZero>>

naming == <<groupSep, groupName, groupPrefix>>

history == <<writeLog, parseBegun, atCall>>

\* the goroutines calling SetOptValue
Threads == 1..MaxThreads

\* no goroutine
NoThread == 0

\* a goroutine that is not in SetOptValue
NoCall == [at |-> "idle", priority |-> 0, set |-> FALSE, err |-> Nil]

threads == <<calls, mu>>

\* a value of type interface{}: nil, an int or a string
NilValue == [t |-> "nil", n |-> 0, s |-> <<>>]

IntValue(n) == [t |-> "int", n |-> n, s |-> <<>>]

StrValue(s) == [t |-> "string", n |-> 0, s |-> s]

\* no option has been constructed
NoOpt == [by |-> "none", made |-> FALSE, type |-> "none", default |-> NilValue,
          panic |-> Nil]

\* no method of the option has been called
NoResult == [op |-> "none", data |-> <<>>, val |-> NilValue, err |-> Nil,
             panic |-> Nil]

\* what a call made by the one goroutine of the program leaves alone
apart == <<calls, mu, stack, ran, option, result>>

-----------------------------------------------------------------------------
(* NewConfig.                                                              *)

Init ==
    /\ parsed = FALSE
    /\ isRequired = TRUE
    /\ isDebug = FALSE
    /\ isPanic = TRUE
    /\ isZero = TRUE
    /\ parsers = <<>>
    /\ parsersCap = 0
    /\ groupSep = <<".">>
    /\ groupName = DefaultGroupName
    /\ groupPrefix = DefaultGroupName \o <<".">>
    /\ watch = Nil
    /\ groups = <<>>
    /\ validators = <<>>
    /\ pc = Idle
    /\ rng = NoRange
    /\ ret = NoRet
    /\ trace = <<>>
    /\ lastOp = [op |-> "NewConfig", out |-> "ok", note |-> <<>>]
    /\ writeLog = <<>>
    /\ parseBegun = FALSE
    /\ atCall = <<>>
    /\ calls = [t \in Threads |-> NoCall]
    /\ mu = NoThread
    /\ stack = <<>>
    /\ ran = <<>>
    /\ option = NoOpt
    /\ result = NoResult

-----------------------------------------------------------------------------
(* Returning and panicking.                                                *)

\* the call returned normally
Done(op) == lastOp' = [op |-> op, out |-> "ok", note |-> <<>>]

\* the call returned the error e
Failed(op, e) == lastOp' = [op |-> op, out |-> e, note |-> <<>>]

\* the call panicked with e: when the call was made by a hook, either the
\* hook recovers or the panic unwinds the running Parse
Raise(op, e) ==
    /\ lastOp' = [op |-> op, out |-> e, note |-> <<>>]
    /\ \/ UNCHANGED <<pc, rng, ret, trace>>
       \/ /\ pc.phase # "idle"
          /\ pc' = Idle
          /\ rng' = NoRange
          /\ trace' = [trace EXCEPT ![Len(trace)].res = "panic"]
          /\ ret' = [NoRet EXCEPT !.kind = "panic", !.stage = pc.phase, !.err = e]

\* mutant of Panic: the panic takes the parsed mark away
PanicUnparsed(op, e) ==
    /\ Raise(op, e)
    /\ parsed' = FALSE
    /\ UNCHANGED <<settings, naming, parsers, parsersCap, watch, groups,
                   validators, history>>

\* a panic raised before the call changed anything
Panic(op, e) ==
    /\ Raise(op, e)
    /\ UNCHANGED <<parsed, settings, naming, parsers, parsersCap, watch,
                   groups, validators, history>>

\* mutant of panicIsParsed: it never panics
panicIsParsedNever(p) == Nil

\* panicIsParsed(p): the error it panics with, Nil when it returns
panicIsParsed(p) ==
    IF p /\ parsed THEN ErrParsed
    ELSE IF ~p /\ ~parsed THEN ErrNotParsed
    ELSE Nil

-----------------------------------------------------------------------------
(* Metadata.                                                               *)

\* mutant of SetDefaultGroupName: the prefix keeps the old name
SetDefaultGroupNameOnly(name) ==
    /\ CanCall
    /\ UNCHANGED apart
    /\ IF panicIsParsed(TRUE) # Nil
       THEN Panic("SetDefaultGroupName", panicIsParsed(TRUE))
       ELSE /\ groupName' = name
            /\ Done("SetDefaultGroupName")
            /\ UNCHANGED <<parsed, settings, groupSep, groupPrefix, parsers,
                           parsersCap, watch, groups, validators, pc, rng, ret,
                           trace, history>>

SetDefaultGroupName(name) ==
    /\ CanCall
    /\ UNCHANGED apart
    /\ IF panicIsParsed(TRUE) # Nil
       THEN Panic("SetDefaultGroupName", panicIsParsed(TRUE))
       ELSE /\ groupName' = name
            /\ groupPrefix' = name \o groupSep
            /\ Done("SetDefaultGroupName")
            /\ UNCHANGED <<parsed, settings, groupSep, parsers, parsersCap, watch,
                           groups, validators, pc, rng, ret, trace, history>>

SetRequired(required) ==
    /\ CanCall
    /\ UNCHANGED apart
    /\ IF panicIsParsed(TRUE) # Nil
       THEN Panic("SetRequired", panicIsParsed(TRUE))
       ELSE /\ isRequired' = required
            /\ Done("SetRequired")
            /\ UNCHANGED <<parsed, isDebug, isPanic, isZero, naming, parsers,
                           parsersCap, watch, groups, validators, pc, rng, ret,
                           trace, history>>

IgnoreReregister(ignore) ==
    /\ CanCall
    /\ UNCHANGED apart
    /\ IF panicIsParsed(TRUE) # Nil
       THEN Panic("IgnoreReregister", panicIsParsed(TRUE))
       ELSE /\ isPanic' = ~ignore
            /\ Done("IgnoreReregister")
            /\ UNCHANGED <<parsed, isRequired, isDebug, isZero, naming, parsers,
                           parsersCap, watch, groups, validators, pc, rng, ret,
                           trace, history>>

SetZero(zero) ==
    /\ CanCall
    /\ UNCHANGED apart
    /\ IF panicIsParsed(TRUE) # Nil
       THEN Panic("SetZero", panicIsParsed(TRUE))
       ELSE /\ isZero' = zero
            /\ Done("SetZero")
            /\ UNCHANGED <<parsed, isRequired, isDebug, isPanic, naming, parsers,
                           parsersCap, watch, groups, validators, pc, rng, ret,
                           trace, history>>

SetDebug(debug) ==
    /\ CanCall
    /\ UNCHANGED apart
    /\ IF panicIsParsed(TRUE) # Nil
       THEN Panic("SetDebug", panicIsParsed(TRUE))
       ELSE /\ isDebug' = debug
            /\ Done("SetDebug")
            /\ UNCHANGED <<parsed, isRequired, isPanic, isZero, naming, parsers,
                           parsersCap, watch, groups, validators, pc, rng, ret,
                           trace, history>>

SetGroupSeparator(sep) ==
    /\ CanCall
    /\ UNCHANGED apart
    /\ IF sep = <<>>
       THEN Panic("SetGroupSeparator", "ErrEmptySeparator")
       ELSE IF panicIsParsed(TRUE) # Nil
       THEN Panic("SetGroupSeparator", panicIsParsed(TRUE))
       ELSE /\ groupSep' = sep
            /\ groupPrefix' = groupName \o sep
            /\ Done("SetGroupSeparator")
            /\ UNCHANGED <<parsed, settings, groupName, parsers, parsersCap, watch,
                           groups, validators, pc, rng, ret, trace, history>>

-----------------------------------------------------------------------------
(* Groups.                                                                 *)

\* newOptGroup(name, fullName, c) of the group file: a group with no option
NewOptGroupObj(name, fullName) ==
    [name |-> name, fullName |-> fullName, opts |-> <<>>]

getGroupName(name) == IF name = <<>> THEN groupName ELSE name

\* mutant of newOptGroup: the key is bound to a new group at every call
newOptGroupRebinding(gs, name, fullName) ==
    (name :> NewOptGroupObj(name, fullName)) @@ gs

\* Config.newOptGroup on the map gs: the map after the call
newOptGroup(gs, name, fullName) ==
    IF name \in DOMAIN gs THEN gs
    ELSE (name :> NewOptGroupObj(name, fullName)) @@ gs

\* mutant of newGroupChain: only the group of the whole path is created
newGroupChainLeaf(gs, segs, i) ==
    LET fullName == Join(segs, groupSep)
    IN  newOptGroup(newOptGroup(gs, fullName, fullName), segs[Len(segs)], fullName)

\* the loop of getGroupByName from its i-th iteration on
RECURSIVE newGroupChain(_, _, _)
newGroupChain(gs, segs, i) ==
    IF i > Len(segs) THEN gs
    ELSE LET fullName == Join(SubSeq(segs, 1, i), groupSep)
         IN  newGroupChain(
                 newOptGroup(newOptGroup(gs, fullName, fullName), segs[i], fullName),
                 segs, i + 1)

\* getGroupByName(name, new): the map after the call, whether a group is
\* returned, and the key it is stored under
getGroupByName(name, new) ==
    LET n == TrimPrefix(name, groupPrefix)
    IN  IF ~new
        THEN [groups |-> groups,
              found  |-> getGroupName(n) \in DOMAIN groups,
              key    |-> getGroupName(n)]
        ELSE IF n = <<>>
        THEN [groups |-> newOptGroup(groups, groupName, groupName),
              found  |-> TRUE,
              key    |-> groupName]
        ELSE LET gs == newGroupChain(groups, Split(n, groupSep), 1)
             IN  [groups |-> gs, found |-> n \in DOMAIN gs, key |-> n]

\* HasGroup(group)
HasGroup(group) == getGroupByName(group, FALSE).found

\* Group(group): whether it panics, and the key of the group it returns
Group(group) ==
    LET got == getGroupByName(group, FALSE)
    IN  [panics |-> ~got.found, key |-> got.key]

NewGroup(group) ==
    /\ CanCall
    /\ UNCHANGED apart
    /\ IF panicIsParsed(TRUE) # Nil
       THEN Panic("NewGroup", panicIsParsed(TRUE))
       ELSE /\ groups' = getGroupByName(group, TRUE).groups
            /\ lastOp' = [op |-> "NewGroup", out |-> "ok",
                          note |-> getGroupByName(group, TRUE).key]
            /\ UNCHANGED <<parsed, settings, naming, parsers, parsersCap, watch,
                           validators, pc, rng, ret, trace, history>>

-----------------------------------------------------------------------------
(* Parsers.                                                                *)

\* mutant of InsertStable: p is put before the parsers of its own priority
RECURSIVE InsertBefore(_, _)
InsertBefore(ps, p) ==
    IF Len(ps) = 0 THEN <<p>>
    ELSE IF Priority(p) <= Priority(ps[Len(ps)])
    THEN Append(InsertBefore(SubSeq(ps, 1, Len(ps) - 1), p), ps[Len(ps)])
    ELSE Append(ps, p)

\* p put into the sorted list ps behind every parser whose priority is not
\* greater than its own
RECURSIVE InsertStable(_, _)
InsertStable(ps, p) ==
    IF Len(ps) = 0 THEN <<p>>
    ELSE IF Priority(p) < Priority(ps[Len(ps)])
    THEN Append(InsertStable(SubSeq(ps, 1, Len(ps) - 1), p), ps[Len(ps)])
    ELSE Append(ps, p)

\* mutant of sortParsers: the list is left as appended
sortParsersNot(ps) == ps

\* sort.SliceStable by Priority(), ascending
RECURSIVE sortParsers(_)
sortParsers(ps) ==
    IF Len(ps) = 0 THEN <<>>
    ELSE InsertStable(sortParsers(SubSeq(ps, 1, Len(ps) - 1)), ps[Len(ps)])

\* the range loop of a running Parse keeps the old backing array when
\* c.parsers moves to a new one
RngDetached ==
    IF pc.phase # "idle" /\ rng.shared
    THEN [rng EXCEPT !.shared = FALSE, !.arr = SubSeq(parsers, 1, rng.len)]
    ELSE rng

\* the capacities append may give a new backing array of n elements: no
\* room to spare, or room for one element more
NewCaps(n) == {n, n + 1}

AddParser(ps) ==
    /\ CanCall
    /\ UNCHANGED apart
    /\ IF panicIsParsed(TRUE) # Nil
       THEN Panic("AddParser", panicIsParsed(TRUE))
       ELSE LET n == Len(parsers) + Len(ps)
            IN  /\ parsers' = sortParsers(parsers \o ps)
                /\ IF n <= parsersCap
                   THEN UNCHANGED <<parsersCap, rng>>
                   ELSE /\ parsersCap' \in NewCaps(n)
                        /\ rng' = RngDetached
                /\ Done("AddParser")
                /\ UNCHANGED <<parsed, settings, naming, watch, groups, validators,
                               pc, ret, trace, history>>

\* the parsers left by the two appends of RemoveParser, i the position found
RemoveAt(ps, i) == SubSeq(ps, 1, i - 1) \o SubSeq(ps, i, Len(ps))

RemoveParser(name) ==
    /\ CanCall
    /\ UNCHANGED apart
    /\ IF panicIsParsed(TRUE) # Nil
       THEN Panic("RemoveParser", panicIsParsed(TRUE))
       ELSE LET at == {i \in 1..Len(parsers) : parsers[i] = name}
            IN  IF at = {}
                THEN /\ lastOp' = [op |-> "RemoveParser", out |-> "ok", note |-> <<>>]
                     /\ UNCHANGED <<parsed, settings, naming, parsers, parsersCap,
                                    watch, groups, validators, pc, rng, ret, trace,
                                    history>>
                ELSE LET i == CHOOSE k \in at : \A j \in at : k <= j
                     IN  /\ parsers' = RemoveAt(parsers, i)
                         /\ parsersCap' \in NewCaps(Len(parsers'))
                         /\ rng' = RngDetached
                         /\ lastOp' = [op |-> "RemoveParser", out |-> "ok",
                                       note |-> <<parsers[i]>>]
                         /\ UNCHANGED <<parsed, settings, naming, watch, groups,
                                        validators, pc, ret, trace, history>>

\* GetParser(name) # nil
HasParser(name) == \E i \in 1..Len(parsers) : parsers[i] = name

-----------------------------------------------------------------------------
(* Options, structs and the observer.                                      *)

\* OptGroup.registerOpt of the group file, on the option map opts: the map
\* after the call and the error it panics with.  Registering a name again
\* panics unless IgnoreReregister(true) was called, and then it is ignored.
groupRegisterOpt(opts, cli, opt) ==
    IF opt.name \in DOMAIN opts
    THEN [opts |-> opts, err |-> IF isPanic THEN "ErrReregister" ELSE Nil]
    ELSE [opts |-> (opt.name :> [required |-> opt.required,
                                 default  |-> opt.default,
                                 cli      |-> cli,
                                 value    |-> Nil,
                                 priority |-> 0]) @@ opts,
          err  |-> Nil]

registerOpt(group, cli, opt) ==
    /\ CanCall
    /\ UNCHANGED apart
    /\ IF panicIsParsed(TRUE) # Nil
       THEN Panic("RegisterOpt", panicIsParsed(TRUE))
       ELSE LET got == getGroupByName(group, TRUE)
                reg == groupRegisterOpt(got.groups[got.key].opts, cli, opt)
            IN  /\ groups' = [got.groups EXCEPT ![got.key].opts = reg.opts]
                /\ IF <<got.key, opt.name>> \in DOMAIN writeLog
                   THEN UNCHANGED writeLog
                   ELSE writeLog' = (<<got.key, opt.name>> :> <<>>) @@ writeLog
                /\ IF reg.err # Nil
                   THEN Raise("RegisterOpt", reg.err)
                   ELSE Done("RegisterOpt") /\ UNCHANGED <<pc, rng, ret, trace>>
                /\ UNCHANGED <<parsed, settings, naming, parsers, parsersCap,
                               watch, validators, parseBegun, atCall>>

RegisterOpt(group, opt) == registerOpt(group, FALSE, opt)

RegisterCliOpt(group, opt) == registerOpt(group, TRUE, opt)

\* s is a pointer to a struct without option fields
registerStruct(group, s, cli) ==
    /\ CanCall
    /\ UNCHANGED apart
    /\ IF panicIsParsed(TRUE) # Nil
       THEN Panic("RegisterStruct", panicIsParsed(TRUE))
       ELSE /\ groups' = getGroupByName(Trim(group, groupSep), TRUE).groups
            /\ validators' = IF IsStructValidator(s)
                             THEN Append(validators, s) ELSE validators
            /\ Done("RegisterStruct")
            /\ UNCHANGED <<parsed, settings, naming, parsers, parsersCap, watch,
                           pc, rng, ret, trace, history>>

RegisterStruct(group, s) == registerStruct(group, s, FALSE)

RegisterCliStruct(group, s) == registerStruct(group, s, TRUE)

\* mutant of Observe: the parsed mark is not looked at
ObserveUnchecked(f) ==
    /\ CanCall
    /\ UNCHANGED apart
    /\ watch' = f
    /\ Done("Observe")
    /\ UNCHANGED <<parsed, settings, naming, parsers, parsersCap, groups,
                   validators, pc, rng, ret, trace, history>>

\* mutant of Observe: an observer already installed is kept
ObserveKeepsFirst(f) ==
    /\ CanCall
    /\ UNCHANGED apart
    /\ IF panicIsParsed(TRUE) # Nil
       THEN Panic("Observe", panicIsParsed(TRUE))
       ELSE /\ watch' = IF watch = Nil THEN f ELSE watch
            /\ Done("Observe")
            /\ UNCHANGED <<parsed, settings, naming, parsers, parsersCap, groups,
                           validators, pc, rng, ret, trace, history>>

Observe(f) ==
    /\ CanCall
    /\ UNCHANGED apart
    /\ IF panicIsParsed(TRUE) # Nil
       THEN Panic("Observe", panicIsParsed(TRUE))
       ELSE /\ watch' = f
            /\ Done("Observe")
            /\ UNCHANGED <<parsed, settings, naming, parsers, parsersCap, groups,
                           validators, pc, rng, ret, trace, history>>

-----------------------------------------------------------------------------
(* Setting a value.                                                        *)

\* mutant of Overwrites: a write of the same priority loses
OverwritesStrict(priority, last) == priority = 0 \/ priority > last

\* the priority arbitration of OptGroup.setOptValue: whether a write of
\* priority `priority` replaces a value written with priority `last`
Overwrites(priority, last) == priority = 0 \/ priority >= last

\* OptGroup.setOptValue of the group file, on the option map opts: the map
\* after the call, the error returned, whether the value was stored
groupSetOptValue(opts, priority, optName, optValue) ==
    IF optName \notin DOMAIN opts
    THEN [opts |-> opts, err |-> "ErrNoOption", set |-> FALSE]
    ELSE IF Overwrites(priority, opts[optName].priority)
    THEN [opts |-> [opts EXCEPT ![optName].value = optValue,
                                ![optName].priority = priority],
          err |-> Nil, set |-> TRUE]
    ELSE [opts |-> opts, err |-> Nil, set |-> FALSE]

\* mutant of SetOptValue: the group is looked up before the priority is
\* checked
SetOptValueGroupFirst(priority, gName, optName, optValue) ==
    /\ CanCall
    /\ UNCHANGED apart
    /\ UNCHANGED <<parsed, settings, naming, parsers, parsersCap, watch,
                   validators, pc, rng, ret, trace, parseBegun, atCall>>
    /\ LET got == getGroupByName(gName, FALSE)
       IN  IF ~got.found
           THEN /\ Failed("SetOptValue", "ErrNoGroup")
                /\ UNCHANGED <<groups, writeLog>>
           ELSE IF priority < 0
           THEN /\ Failed("SetOptValue", "ErrNegativePriority")
                /\ UNCHANGED <<groups, writeLog>>
           ELSE LET w == groupSetOptValue(groups[got.key].opts, priority,
                                          optName, optValue)
                IN  /\ groups' = [groups EXCEPT ![got.key].opts = w.opts]
                    /\ writeLog' =
                         IF w.err = Nil
                         THEN [writeLog EXCEPT ![<<got.key, optName>>] =
                                 Append(@, [priority |-> priority,
                                            value |-> optValue])]
                         ELSE writeLog
                    /\ lastOp' =
                         [op   |-> "SetOptValue",
                          out  |-> IF w.err = Nil THEN "ok" ELSE w.err,
                          note |-> IF w.set /\ watch # Nil
                                   THEN <<watch, groups[got.key].fullName,
                                          optName, optValue>>
                                   ELSE <<>>]

\* mutant of SetOptValue: the group is told priority 0 whatever the caller
\* passed
SetOptValueForced(priority, gName, optName, optValue) ==
    /\ CanCall
    /\ UNCHANGED apart
    /\ UNCHANGED <<parsed, settings, naming, parsers, parsersCap, watch,
                   validators, pc, rng, ret, trace, parseBegun, atCall>>
    /\ IF priority < 0
       THEN /\ Failed("SetOptValue", "ErrNegativePriority")
            /\ UNCHANGED <<groups, writeLog>>
       ELSE LET got == getGroupByName(gName, FALSE)
            IN  IF ~got.found
                THEN /\ Failed("SetOptValue", "ErrNoGroup")
                     /\ UNCHANGED <<groups, writeLog>>
                ELSE LET w == groupSetOptValue(groups[got.key].opts, 0,
                                               optName, optValue)
                     IN  /\ groups' = [groups EXCEPT ![got.key].opts = w.opts]
                         /\ writeLog' =
                              IF w.err = Nil
                              THEN [writeLog EXCEPT ![<<got.key, optName>>] =
                                      Append(@, [priority |-> priority,
                                                 value |-> optValue])]
                              ELSE writeLog
                         /\ lastOp' =
                              [op   |-> "SetOptValue",
                               out  |-> IF w.err = Nil THEN "ok" ELSE w.err,
                               note |-> IF w.set /\ watch # Nil
                                        THEN <<watch, groups[got.key].fullName,
                                               optName, optValue>>
                                        ELSE <<>>]

SetOptValue(priority, gName, optName, optValue) ==
    /\ CanCall
    /\ UNCHANGED apart
    /\ UNCHANGED <<parsed, settings, naming, parsers, parsersCap, watch,
                   validators, pc, rng, ret, trace, parseBegun, atCall>>
    /\ IF priority < 0
       THEN /\ Failed("SetOptValue", "ErrNegativePriority")
            /\ UNCHANGED <<groups, writeLog>>
       ELSE LET got == getGroupByName(gName, FALSE)
            IN  IF ~got.found
                THEN /\ Failed("SetOptValue", "ErrNoGroup")
                     /\ UNCHANGED <<groups, writeLog>>
                ELSE LET w == groupSetOptValue(groups[got.key].opts, priority,
                                               optName, optValue)
                     IN  /\ groups' = [groups EXCEPT ![got.key].opts = w.opts]
                         /\ writeLog' =
                              IF w.err = Nil
                              THEN [writeLog EXCEPT ![<<got.key, optName>>] =
                                      Append(@, [priority |-> priority,
                                                 value |-> optValue])]
                              ELSE writeLog
                         /\ lastOp' =
                              [op   |-> "SetOptValue",
                               out  |-> IF w.err = Nil THEN "ok" ELSE w.err,
                               note |-> IF w.set /\ watch # Nil
                                        THEN <<watch, groups[got.key].fullName,
                                               optName, optValue>>
                                        ELSE <<>>]

-----------------------------------------------------------------------------
(* SetOptValue called by several goroutines at a time, each writing the    *)
(* option "o" of the default group.  The body of OptGroup.setOptValue is   *)
(* taken in steps: the lock, the arbitration, the two stores, the unlock,  *)
(* and the notification of the observer once the lock is released.         *)

\* the value goroutine t writes
RaceValue(t) == ToString(t)

\* what a step of a goroutine leaves alone, but for groups
config == <<parsed, settings, naming, parsers, parsersCap, watch, validators,
            pc, rng, ret, trace, lastOp, history, stack, ran, option, result>>

\* the options of the group the goroutines write to, none when the group
\* does not exist
RaceOpts ==
    LET got == getGroupByName(<<>>, FALSE)
    IN  IF got.found THEN groups[got.key].opts ELSE <<>>

\* goroutine t moves to `at`
At(t, at) == calls' = [calls EXCEPT ![t].at = at]

\* mutant of GoSetOptValue: the option is written without the lock of the
\* group
GoSetOptValueUnlocked(t, priority) ==
    /\ calls[t].at = "idle"
    /\ IF priority < 0
       THEN calls' = [calls EXCEPT ![t] =
                        [NoCall EXCEPT !.at = "done", !.priority = priority,
                                       !.err = "ErrNegativePriority"]]
       ELSE IF ~getGroupByName(<<>>, FALSE).found
       THEN calls' = [calls EXCEPT ![t] =
                        [NoCall EXCEPT !.at = "done", !.priority = priority,
                                       !.err = "ErrNoGroup"]]
       ELSE calls' = [calls EXCEPT ![t] =
                        [NoCall EXCEPT !.at = "arbitrate", !.priority = priority]]
    /\ UNCHANGED <<mu, groups, config>>

\* lines 527-536: goroutine t calls SetOptValue(priority, "", "o", v) and
\* comes to group.setOptValue
GoSetOptValue(t, priority) ==
    /\ calls[t].at = "idle"
    /\ IF priority < 0
       THEN calls' = [calls EXCEPT ![t] =
                        [NoCall EXCEPT !.at = "done", !.priority = priority,
                                       !.err = "ErrNegativePriority"]]
       ELSE IF ~getGroupByName(<<>>, FALSE).found
       THEN calls' = [calls EXCEPT ![t] =
                        [NoCall EXCEPT !.at = "done", !.priority = priority,
                                       !.err = "ErrNoGroup"]]
       ELSE calls' = [calls EXCEPT ![t] =
                        [NoCall EXCEPT !.at = "lock", !.priority = priority]]
    /\ UNCHANGED <<mu, groups, config>>

\* OptGroup.setOptValue: the lock of the group is taken
GoLock(t) ==
    /\ calls[t].at = "lock"
    /\ mu = NoThread
    /\ mu' = t
    /\ At(t, "arbitrate")
    /\ UNCHANGED <<groups, config>>

\* OptGroup.setOptValue: the option is looked up and the priority of the
\* call is compared with the priority stored
GoArbitrate(t) ==
    /\ calls[t].at = "arbitrate"
    /\ IF "o" \notin DOMAIN RaceOpts
       THEN calls' = [calls EXCEPT ![t].at = "unlock", ![t].err = "ErrNoOption"]
       ELSE IF Overwrites(calls[t].priority, RaceOpts["o"].priority)
       THEN calls' = [calls EXCEPT ![t].at = "value", ![t].set = TRUE]
       ELSE At(t, "unlock")
    /\ UNCHANGED <<mu, groups, config>>

\* OptGroup.setOptValue: the value is stored
GoStoreValue(t) ==
    /\ calls[t].at = "value"
    /\ groups' = [groups EXCEPT
                    ![getGroupByName(<<>>, FALSE).key].opts["o"].value =
                        RaceValue(t)]
    /\ At(t, "priority")
    /\ UNCHANGED <<mu, config>>

\* OptGroup.setOptValue: the priority is stored
GoStorePriority(t) ==
    /\ calls[t].at = "priority"
    /\ groups' = [groups EXCEPT
                    ![getGroupByName(<<>>, FALSE).key].opts["o"].priority =
                        calls[t].priority]
    /\ At(t, "unlock")
    /\ UNCHANGED <<mu, config>>

\* OptGroup.setOptValue: the lock is released
GoUnlock(t) ==
    /\ calls[t].at = "unlock"
    /\ mu' = NoThread
    /\ At(t, IF calls[t].set /\ watch # Nil THEN "notify" ELSE "done")
    /\ UNCHANGED <<groups, config>>

\* OptGroup.setOptValue: the observer is called, and SetOptValue returns
GoNotify(t) ==
    /\ calls[t].at = "notify"
    /\ At(t, "done")
    /\ UNCHANGED <<mu, groups, config>>

\* no goroutine is inside SetOptValue
Quiet == \A t \in Threads : calls[t].at \in {"idle", "done"}

-----------------------------------------------------------------------------
(* Parse.  Each hook is a call into the program: it is entered in one step *)
(* and returns in a later one, and between the two it may call the API.    *)

Running == [NoRet EXCEPT !.kind = "running"]

Returned(stage, e, by, at) ==
    [kind |-> IF e = Nil THEN "ok" ELSE "err",
     stage |-> stage, err |-> e, by |-> by, at |-> at]

Event(phase, who) == [phase |-> phase, who |-> who, res |-> "running"]

\* a `for _, parser := range c.parsers` loop begins
RangeParsers == [len |-> Len(parsers), shared |-> TRUE, arr |-> <<>>]

\* OptGroup.checkRequiredOption of the group file: the options of g whose
\* absence it reports (required, never written, no default)
checkRequiredOption(g) ==
    {o \in DOMAIN g.opts : /\ g.opts[o].required
                           /\ g.opts[o].value = Nil
                           /\ g.opts[o].default = Nil}

\* mutant of RequiredResults: the error of checkRequiredOption is dropped
RequiredResultsDropped(gs) == {<<>>}

\* the errors the loop over c.groups can return first, <<>> for none
RequiredResults(gs) ==
    LET errs == UNION {{<<gs[k].fullName, o>> : o \in checkRequiredOption(gs[k])} :
                       k \in DOMAIN gs}
    IN  IF errs = {} THEN {<<>>} ELSE errs

\* lines 247-261: the required-option check over the groups gs, then the
\* validators; tr is the trace so far
Finalize(tr, gs) ==
    \E rq \in RequiredResults(gs) :
        /\ trace' = Append(tr, [phase |-> "Required", who |-> Nil,
                                res |-> IF rq = <<>> THEN "ok" ELSE "missing"])
        /\ rng' = NoRange
        /\ IF rq # <<>>
           THEN /\ ret' = Returned("required", "ErrMissingOption", Nil, rq)
                /\ pc' = Idle
           ELSE IF Len(validators) = 0
           THEN /\ ret' = Returned("done", Nil, Nil, <<>>)
                /\ pc' = Idle
           ELSE /\ ret' = Running
                /\ pc' = [phase |-> "validate", i |-> 1, in |-> FALSE]

\* mutant of EnterParsePhase: parsed is not set when the Pre loop is over
EnterParsePhaseUnmarked(tr, gs) ==
    /\ UNCHANGED parsed
    /\ IF Len(parsers) > 0
       THEN /\ pc' = [phase |-> "parse", i |-> 1, in |-> FALSE]
            /\ rng' = RangeParsers
            /\ ret' = Running
            /\ trace' = tr
       ELSE Finalize(tr, gs)

\* lines 232-233: the Pre loop is over
EnterParsePhase(tr, gs) ==
    /\ parsed' = TRUE
    /\ IF Len(parsers) > 0
       THEN /\ pc' = [phase |-> "parse", i |-> 1, in |-> FALSE]
            /\ rng' = RangeParsers
            /\ ret' = Running
            /\ trace' = tr
       ELSE Finalize(tr, gs)

\* lines 215-225: the call of Parse, up to the first hook
Parse ==
    /\ CanCall
    /\ UNCHANGED apart
    /\ IF panicIsParsed(TRUE) # Nil
       THEN Panic("Parse", panicIsParsed(TRUE))
       ELSE /\ pc.phase = "idle"
            /\ parseBegun' = TRUE
            /\ atCall' = parsers
            /\ lastOp' = [op |-> "Parse", out |-> "called", note |-> <<>>]
            /\ groups' = getGroupByName(groupName, TRUE).groups
            /\ IF Len(parsers) > 0
               THEN /\ pc' = [phase |-> "pre", i |-> 1, in |-> FALSE]
                    /\ rng' = RangeParsers
                    /\ ret' = Running
                    /\ trace' = <<>>
                    /\ UNCHANGED parsed
               ELSE EnterParsePhase(<<>>, groups')
            /\ UNCHANGED <<settings, naming, parsers, parsersCap, watch,
                           validators, writeLog>>

\* lines 215-225: Parse called by a running Pre hook.  The Parse call the
\* hook belongs to waits, with its trace, for this one to return.
ParseInHook ==
    /\ pc.phase = "pre" /\ pc.in
    /\ panicIsParsed(TRUE) = Nil
    /\ Len(stack) < MaxDepth
    /\ stack' = <<[pc |-> pc, rng |-> rng, trace |-> trace]>> \o stack
    /\ parseBegun' = TRUE
    /\ atCall' = parsers
    /\ lastOp' = [op |-> "Parse", out |-> "called", note |-> <<>>]
    /\ groups' = getGroupByName(groupName, TRUE).groups
    /\ IF Len(parsers) > 0
       THEN /\ pc' = [phase |-> "pre", i |-> 1, in |-> FALSE]
            /\ rng' = RangeParsers
            /\ ret' = Running
            /\ trace' = <<>>
            /\ UNCHANGED parsed
       ELSE EnterParsePhase(<<>>, groups')
    /\ UNCHANGED <<settings, naming, parsers, parsersCap, watch, validators,
                   writeLog, threads, ran, option, result>>

\* the Parse call a hook made is over: the hook goes on with what that call
\* returned or, when that call panicked, either recovers and goes on or
\* lets the panic through the Parse call it belongs to
ParseInHookOver ==
    /\ pc.phase = "idle"
    /\ stack # <<>>
    /\ stack' = Tail(stack)
    /\ \/ /\ pc' = Head(stack).pc
          /\ rng' = Head(stack).rng
          /\ trace' = Head(stack).trace
          /\ ret' = Running
       \/ /\ ret.kind = "panic"
          /\ UNCHANGED <<pc, rng, trace, ret>>
    /\ UNCHANGED <<parsed, settings, naming, parsers, parsersCap, watch, groups,
                   validators, lastOp, history, threads, ran, option, result>>

frame == <<settings, naming, parsers, parsersCap, watch, groups, validators,
           lastOp, history, threads, stack, option, result>>

\* mutant of PreFailed: the Config is marked parsed before the Pre loop ends
PreFailedParsed(tr, r) ==
    /\ ret' = Returned("pre", r, Nil, <<>>)
    /\ pc' = Idle
    /\ rng' = NoRange
    /\ trace' = tr
    /\ parsed' = TRUE

\* lines 227-229: parser.Pre(c) returned the error r; tr is the trace
PreFailed(tr, r) ==
    /\ ret' = Returned("pre", r, Nil, <<>>)
    /\ pc' = Idle
    /\ rng' = NoRange
    /\ trace' = tr
    /\ UNCHANGED parsed

\* mutant of ParseFailed: the error is returned as the hook gave it
ParseFailedUnwrapped(r) ==
    /\ ret' = Returned("parse", r, Nil, <<>>)
    /\ pc' = Idle
    /\ rng' = NoRange

\* lines 235-237: parser.Parse(c) returned the error r
ParseFailed(r) ==
    /\ ret' = Returned("parse", r, trace[Len(trace)].who, <<>>)
    /\ pc' = Idle
    /\ rng' = NoRange

\* lines 242-244: parser.Post(c) returned the error r
PostFailed(tr, r) ==
    /\ ret' = Returned("post", r, Nil, <<>>)
    /\ pc' = Idle
    /\ rng' = NoRange
    /\ trace' = tr

\* lines 255-257: a validator returned the error r
ValidateFailed(r) ==
    /\ ret' = Returned("validate", r, Nil, <<>>)
    /\ pc' = Idle

\* line 227: parser.Pre(c) is entered
PreCall ==
    /\ pc.phase = "pre" /\ ~pc.in
    /\ trace' = Append(trace, Event("Pre", RngAt(pc.i)))
    /\ pc' = [pc EXCEPT !.in = TRUE]
    /\ UNCHANGED <<parsed, rng, ret, frame, ran>>

\* lines 227-232: parser.Pre(c) returns r
PreReturn(r) ==
    /\ pc.phase = "pre" /\ pc.in
    /\ LET tr == [trace EXCEPT ![Len(trace)].res = r]
       IN  IF r # "ok"
           THEN PreFailed(tr, r)
           ELSE IF pc.i < rng.len
           THEN /\ pc' = [pc EXCEPT !.i = pc.i + 1, !.in = FALSE]
                /\ trace' = tr
                /\ UNCHANGED <<parsed, rng, ret>>
           ELSE EnterParsePhase(tr, groups)
    /\ UNCHANGED <<frame, ran>>

\* line 235: parser.Parse(c) is entered
ParseHookCall ==
    /\ pc.phase = "parse" /\ ~pc.in
    /\ trace' = Append(trace, Event("Parse", RngAt(pc.i)))
    /\ pc' = [pc EXCEPT !.in = TRUE]
    /\ ran' = Append(ran, [phase |-> "Parse", who |-> RngAt(pc.i)])
    /\ UNCHANGED <<parsed, rng, ret, frame>>

\* lines 235-240: parser.Parse(c) returns r
ParseHookReturn(r) ==
    /\ pc.phase = "parse" /\ pc.in
    /\ trace' = [trace EXCEPT ![Len(trace)].res = r]
    /\ IF r # "ok"
       THEN ParseFailed(r)
       ELSE IF pc.i < rng.len
       THEN /\ pc' = [pc EXCEPT !.i = pc.i + 1, !.in = FALSE]
            /\ UNCHANGED <<rng, ret>>
       ELSE /\ pc' = [phase |-> "post", i |-> 1, in |-> FALSE]
            /\ rng' = RangeParsers
            /\ UNCHANGED ret
    /\ UNCHANGED <<parsed, frame, ran>>

\* line 242: parser.Post(c) is entered
PostCall ==
    /\ pc.phase = "post" /\ ~pc.in
    /\ trace' = Append(trace, Event("Post", RngAt(pc.i)))
    /\ pc' = [pc EXCEPT !.in = TRUE]
    /\ ran' = Append(ran, [phase |-> "Post", who |-> RngAt(pc.i)])
    /\ UNCHANGED <<parsed, rng, ret, frame>>

\* lines 242-252: parser.Post(c) returns r
PostReturn(r) ==
    /\ pc.phase = "post" /\ pc.in
    /\ LET tr == [trace EXCEPT ![Len(trace)].res = r]
       IN  IF r # "ok"
           THEN PostFailed(tr, r)
           ELSE IF pc.i < rng.len
           THEN /\ pc' = [pc EXCEPT !.i = pc.i + 1, !.in = FALSE]
                /\ trace' = tr
                /\ UNCHANGED <<rng, ret>>
           ELSE Finalize(tr, groups)
    /\ UNCHANGED <<parsed, frame, ran>>

\* line 255: the validator v() is entered
ValidateCall ==
    /\ pc.phase = "validate" /\ ~pc.in
    /\ trace' = Append(trace, Event("Validate", validators[pc.i]))
    /\ pc' = [pc EXCEPT !.in = TRUE]
    /\ UNCHANGED <<parsed, rng, ret, frame, ran>>

\* mutant of ValidateReturn: a failing validator does not stop the loop,
\* its error is returned when the last validator has run
ValidateReturnLate(r) ==
    /\ pc.phase = "validate" /\ pc.in
    /\ trace' = [trace EXCEPT ![Len(trace)].res = r]
    /\ IF pc.i < Len(validators)
       THEN /\ pc' = [pc EXCEPT !.i = pc.i + 1, !.in = FALSE]
            /\ UNCHANGED ret
       ELSE IF r # "ok"
       THEN ValidateFailed(r)
       ELSE /\ ret' = Returned("done", Nil, Nil, <<>>)
            /\ pc' = Idle
    /\ UNCHANGED <<parsed, rng, frame, ran>>

\* lines 255-260: the validator returns r
ValidateReturn(r) ==
    /\ pc.phase = "validate" /\ pc.in
    /\ trace' = [trace EXCEPT ![Len(trace)].res = r]
    /\ IF r # "ok"
       THEN ValidateFailed(r)
       ELSE IF pc.i < Len(validators)
       THEN /\ pc' = [pc EXCEPT !.i = pc.i + 1, !.in = FALSE]
            /\ UNCHANGED ret
       ELSE /\ ret' = Returned("done", Nil, Nil, <<>>)
            /\ pc' = Idle
    /\ UNCHANGED <<parsed, rng, frame, ran>>

-----------------------------------------------------------------------------
(* The programs checked.                                                   *)

\* the results a hook or a validator returns
Results == {"ok"} \cup HookErrs

\* a required option without a default, and one with a default
OptRequired == [name |-> "o", required |-> TRUE, default |-> Nil]

OptDefault == [name |-> "o", required |-> TRUE, default |-> "v1"]

\* the option has been registered and no write has reached it yet
NeverWritten(gName, optName) ==
    LET got == getGroupByName(gName, FALSE)
    IN  /\ <<got.key, optName>> \in DOMAIN writeLog
        /\ writeLog[<<got.key, optName>>] = <<>>

\* the steps of a running Parse
Hooks ==
    \/ PreCall
    \/ \E r \in Results : PreReturn(r)
    \/ ParseHookCall
    \/ \E r \in Results : ParseHookReturn(r)
    \/ PostCall
    \/ \E r \in Results : PostReturn(r)
    \/ ValidateCall
    \/ \E r \in Results : ValidateReturn(r)

\* A program that registers parsers, a validator and a required option and
\* runs Parse; its hooks add and remove parsers.
Next ==
    \/ \E p \in Parsers : Len(parsers) < MaxParsers /\ AddParser(<<p>>)
    \/ \E p \in Parsers : RemoveParser(p)
    \/ validators = <<>> /\ RegisterStruct(<<>>, "s1")
    \/ groups = <<>> /\ RegisterOpt(<<>>, OptRequired)
    \/ Parse
    \/ Hooks

Spec == Init /\ [][Next]_vars

\* A program with one source and a required option, with or without a
\* default, that registers structs and runs Parse; the option is written at
\* most once, by the program or by a hook, with priority 0 or 1.
NextFinal ==
    \/ parsers = <<>> /\ AddParser(<<"p1">>)
    \/ \E s \in Structs : Len(validators) < MaxValidators /\ RegisterStruct(<<>>, s)
    \/ \E opt \in {OptRequired, OptDefault} : RegisterOpt(<<>>, opt)
    \/ \E pr \in {0, 1} : NeverWritten(<<>>, "o") /\ SetOptValue(pr, <<>>, "o", "v1")
    \/ Parse
    \/ Hooks

SpecFinal == Init /\ [][NextFinal]_vars

\* A program that names its default group and separator, registers and
\* parses, and that goes on calling every operation of the API, from its
\* hooks and after Parse; the four mode setters are called with the values
\* NewConfig gave.
NextFreeze ==
    \/ SetDefaultGroupName(<<"g">>)
    \/ \E sep \in {<<>>, <<"/">>} : SetGroupSeparator(sep)
    \/ SetRequired(TRUE)
    \/ SetZero(TRUE)
    \/ SetDebug(FALSE)
    \/ IgnoreReregister(FALSE)
    \/ (parsed \/ parsers = <<>>) /\ AddParser(<<"p1">>)
    \/ RemoveParser("p1")
    \/ RegisterOpt(<<>>, OptRequired)
    \/ RegisterCliOpt(<<>>, OptDefault)
    \/ (parsed \/ validators = <<>>) /\ RegisterStruct(<<>>, "s1")
    \/ RegisterCliStruct(<<>>, "s0")
    \/ NewGroup(<<"a">>)
    \/ Observe("f1")
    \/ NeverWritten(<<>>, "o") /\ SetOptValue(1, <<>>, "o", "v1")
    \/ Parse
    \/ Hooks

SpecFreeze == Init /\ [][NextFreeze]_vars

\* no option has been written MaxWrites times yet
CanLog == \A k \in DOMAIN writeLog : Len(writeLog[k]) < MaxWrites

\* A program that registers one option, installs an observer, parses with
\* no parser, and writes the option, before and after Parse, with any
\* priority from -1 to MaxPriority; it writes to a group and to an option
\* that do not exist too.
NextSet ==
    \/ RegisterOpt(<<>>, OptDefault)
    \/ Observe("f1")
    \/ \E pr \in -1..MaxPriority, v \in Values :
           CanLog /\ SetOptValue(pr, <<>>, "o", v)
    \/ \E pr \in {-1, 1} : SetOptValue(pr, <<"a">>, "o", "v1")
    \/ SetOptValue(1, <<>>, "x", "v1")
    \/ Parse

SpecSet == Init /\ [][NextSet]_vars

\* A program that registers one option, installs the observer f1 and then
\* f2 in its place (and f1 again), writes the option, and parses with no
\* parser; it goes on installing observers and writing after Parse.
NextWatch ==
    \/ RegisterOpt(<<>>, OptDefault)
    \/ Observe("f1")
    \/ watch = "f1" /\ Observe("f2")
    \/ \E pr \in 0..MaxPriority, v \in Values :
           CanLog /\ SetOptValue(pr, <<>>, "o", v)
    \/ Parse

SpecWatch == Init /\ [][NextWatch]_vars

\* the group names a program that renames the default group "g" and
\* makes "/" the separator creates groups with
Made == {<<"a", ".", "b">>, <<"DEFAULT", ".", "a">>}

\* the group names it registers an option with
Addresses == {<<"a", ".", "b">>, <<"DEFAULT", ".", "a">>, <<"g", "/", "a">>}

\* the group names it writes the option with
Written == {<<"a">>, <<"b">>}

\* A program that names the default group and the separator, creates
\* groups, registers an option in them and writes it once, under any of
\* the names of a group, and parses with no parser.
NextNames ==
    \/ SetDefaultGroupName(<<"g">>)
    \/ \E sep \in {<<>>, <<"/">>} : SetGroupSeparator(sep)
    \/ \E path \in Made : NewGroup(path)
    \/ \E g \in Addresses : RegisterOpt(g, OptDefault)
    \/ \E g \in Written :
           NeverWritten(g, "o") /\ SetOptValue(1, g, "o", "v1")
    \/ Parse

SpecNames == Init /\ [][NextNames]_vars

\* A program that registers parsers of different names and a validator and
\* calls Parse, again when it failed; its Pre hooks may call Parse too.
NextAgain ==
    \/ \E p \in Parsers :
           ~HasParser(p) /\ Len(parsers) < MaxParsers /\ AddParser(<<p>>)
    \/ validators = <<>> /\ RegisterStruct(<<>>, "s1")
    \/ Parse
    \/ ParseInHook
    \/ ParseInHookOver
    \/ Hooks

SpecAgain == Init /\ [][NextAgain]_vars

\* the paths a program names its groups with
Paths ==
    {<<>>, <<"a">>, <<"a", ".", "b">>, <<"a", ".", "b", ".", "c">>,
     <<"a", ".", "x">>, <<"b", ".", "x">>, <<"DEFAULT", ".", "a">>}

\* A program that creates groups, again and in any order, and parses.
NextGroups ==
    \/ \E path \in Paths : NewGroup(path)
    \/ Parse

SpecGroups == Init /\ [][NextGroups]_vars

\* the parsers one call of AddParser is given
Added == {<<p>> : p \in Parsers} \cup {<<p, q>> : p, q \in Parsers}

\* A program that adds parsers, one or two in a call, and removes them by
\* name.
NextList ==
    \/ \E ps \in Added :
           Len(parsers) + Len(ps) <= MaxListed /\ AddParser(ps)
    \/ \E p \in Parsers : RemoveParser(p)

SpecList == Init /\ [][NextList]_vars

\* A program that registers the option and an observer and then lets its
\* goroutines call SetOptValue once each, at the same time.
NextRace ==
    \/ Quiet /\ RegisterOpt(<<>>, OptDefault)
    \/ Quiet /\ Observe("f1")
    \/ \E t \in Threads, pr \in -1..MaxPriority : GoSetOptValue(t, pr)
    \/ \E t \in Threads : GoLock(t)
    \/ \E t \in Threads : GoArbitrate(t)
    \/ \E t \in Threads : GoStoreValue(t)
    \/ \E t \in Threads : GoStorePriority(t)
    \/ \E t \in Threads : GoUnlock(t)
    \/ \E t \in Threads : GoNotify(t)

SpecRace == Init /\ [][NextRace]_vars

-----------------------------------------------------------------------------
(* The trace of a Parse call.                                              *)

PhaseRank(ph) ==
    CASE ph = "Pre" -> 1 [] ph = "Parse" -> 2 [] ph = "Post" -> 3
      [] ph = "Required" -> 4 [] OTHER -> 5

\* the parsers (or validators) whose hook of phase ph was invoked, in order
Whos(ph) ==
    LET sel == SelectSeq(trace, LAMBDA e : e.phase = ph)
    IN  [k \in 1..Len(sel) |-> sel[k].who]

Count(seq, x) == Cardinality({k \in 1..Len(seq) : seq[k] = x})

PhaseOrder ==
    \A i, j \in 1..Len(trace) :
        i < j => PhaseRank(trace[i].phase) <= PhaseRank(trace[j].phase)

OneAtATime ==
    \A i \in 1..Len(trace) : trace[i].res = "running" => i = Len(trace) /\ pc.in

Ascending(ph) ==
    \A i, j \in 1..Len(Whos(ph)) :
        i < j => Priority(Whos(ph)[i]) <= Priority(Whos(ph)[j])

\* every registered parser had its hook of phase ph invoked exactly once
EachOnce(ph) == \A p \in Parsers : Count(Whos(ph), p) = Count(parsers, p)

PreFailure == ret.kind = "err" /\ ret.stage = "pre"

-----------------------------------------------------------------------------
(* C2 *)

-----------------------------------------------------------------------------
(* C3 *)

-----------------------------------------------------------------------------
(* C8 *)

\* C8: when a Parse hook returns an error, Parse returns it wrapped with the
\* name of the parser whose hook failed, that hook is the last hook invoked,
\* and no Post hook, no required-option check and no validator has run.
C8_ParseFailureStops ==
    (ret.kind = "err" /\ ret.stage = "parse") =>
        /\ trace[Len(trace)].phase = "Parse"
        /\ trace[Len(trace)].res = ret.err
        /\ ret.by = trace[Len(trace)].who
        /\ \A k \in 1..Len(trace) : trace[k].phase \in {"Pre", "Parse"}
        /\ \A k \in 1..(Len(trace) - 1) : trace[k].res = "ok"

C8_Witness ==
    /\ ret.kind = "err" /\ ret.stage = "parse"
    /\ Len(parsers) = 2
    /\ ret.by = parsers[1]
    /\ Len(validators) > 0
    /\ \E k \in DOMAIN groups : checkRequiredOption(groups[k]) # {}

-----------------------------------------------------------------------------
(* C5 *)

\* Parse returned the error of the required-option check or of a validator
LateFailure == ret.kind = "err" /\ ret.stage \in {"required", "validate"}

\* C5, as claimed: when Parse fails in the required-option check or in a
\* validator, the Config is left unparsed.
C5_LateFailureUnparsed == LateFailure => ~parsed

\* C5, amended: when Parse fails in the required-option check or in a
\* validator, the Config stays parsed, and a Parse call made in that state
\* panics with ErrParsed, invokes no hook and changes nothing.
C5_LateFailureParsed ==
    [][/\ LateFailure' => parsed'
       /\ (LateFailure /\ Parse) =>
            /\ lastOp' = [op |-> "Parse", out |-> ErrParsed, note |-> <<>>]
            /\ UNCHANGED <<parsed, groups, pc, ret, trace>>
      ]_vars

C5_Witness ==
    /\ LateFailure
    /\ parsed
    /\ lastOp = [op |-> "Parse", out |-> ErrParsed, note |-> <<>>]

-----------------------------------------------------------------------------
(* C9 *)

\* the required-option check is made in this step
CheckedNow ==
    /\ trace' # trace
    /\ Len(trace') > 0
    /\ trace'[Len(trace')].phase = "Required"

\* the required options without default that no write has reached
NeverWrittenRequired ==
    {ko \in DOMAIN writeLog :
        /\ ko[1] \in DOMAIN groups
        /\ ko[2] \in DOMAIN groups[ko[1]].opts
        /\ groups[ko[1]].opts[ko[2]].required
        /\ groups[ko[1]].opts[ko[2]].default = Nil
        /\ writeLog[ko] = <<>>}

\* C9: when the required-option check is made, Parse returns the
\* missing-option error, naming such an option, if some required option
\* without default was never written; and it does not return that error if
\* every such option was written by SetOptValue, whatever the priority.
C9_RequiredMissing ==
    [][CheckedNow =>
          LET never == NeverWrittenRequired'
          IN  /\ never # {} =>
                    /\ ret'.kind = "err" /\ ret'.stage = "required"
                    /\ \E ko \in never :
                          ret'.at = <<groups'[ko[1]].fullName, ko[2]>>
              /\ never = {} => ret'.stage # "required"
      ]_vars

C9_Witness ==
    /\ ret.kind = "err" /\ ret.stage = "required"
    /\ ret.at = <<DefaultGroupName, "o">>
    /\ Len(trace) = 4

\* a required option without default, written once with priority 0, passed
C9_WitnessWritten ==
    /\ ret.kind = "ok"
    /\ <<DefaultGroupName, "o">> \in DOMAIN writeLog
    /\ groups[DefaultGroupName].opts["o"].default = Nil
    /\ writeLog[<<DefaultGroupName, "o">>] = <<[priority |-> 0, value |-> "v1"]>>

-----------------------------------------------------------------------------
(* C10 *)

\* what the trace shows of the validators
ValidatorsLast ==
    LET v == Whos("Validate")
    IN  /\ v = SubSeq(validators, 1, Len(v))
        /\ Len(v) > 0 =>
              /\ parsed
              /\ EachOnce("Parse") /\ EachOnce("Post")
              /\ parsers = atCall => EachOnce("Pre")
              /\ \A k \in 1..Len(trace) :
                    trace[k].phase \in {"Pre", "Parse", "Post", "Required"}
                        => trace[k].res = "ok"
              /\ Len(Whos("Required")) = 1
        /\ \A k \in 1..(Len(trace) - 1) :
              trace[k].phase = "Validate" => trace[k].res = "ok"
        /\ (ret.kind = "err" /\ ret.stage = "validate") =>
              /\ trace[Len(trace)].phase = "Validate"
              /\ ret.err = trace[Len(trace)].res
              /\ ret.by = Nil

\* C10: a validator runs only when every Pre, Parse and Post hook returned
\* nil and the required-option check passed; the validators run in the
\* order in which RegisterStruct collected them, each entry at most once in
\* a Parse call, and the first error of a validator is what Parse returns,
\* no later validator being run.
C10_ValidatorsLast ==
    /\ []ValidatorsLast
    /\ [][Len(validators') > Len(validators)
            => SubSeq(validators', 1, Len(validators)) = validators]_vars

C10_Witness ==
    /\ ret.kind = "err" /\ ret.stage = "validate"
    /\ validators = <<"s2", "s1">>
    /\ Whos("Validate") = <<"s2">>
    /\ Whos("Post") = <<"p1">>

-----------------------------------------------------------------------------
(* The parsed mark and the operations it closes.                           *)

\* the operations that change the structure, by the name lastOp gives them
\* (RegisterCliOpt is recorded as RegisterOpt, RegisterCliStruct as
\* RegisterStruct)
Structural ==
    {"NewGroup", "RegisterOpt", "RegisterStruct", "AddParser", "RemoveParser",
     "SetGroupSeparator", "SetDefaultGroupName"}

\* the operations that begin with panicIsParsed(true)
Guarded ==
    Structural \cup {"SetRequired", "SetZero", "SetDebug", "IgnoreReregister",
                     "Observe", "Parse"}

\* the step is a call, made or returned, of one of the operations ops
CallOf(ops) == lastOp' # lastOp /\ lastOp'.op \in ops

\* the structure of the Config
Structure == <<groups, parsers, groupSep, groupName, groupPrefix>>

\* what is frozen: the keys of groups, the parsers, the default group name,
\* the separator, the observer and the validators
Shape == <<DOMAIN groups, parsers, groupName, groupSep, watch, validators>>

\* C4: once Parsed() has returned true it returns true in every later
\* state, whatever follows: hooks and validators that fail, calls that
\* panic, a panic that unwinds the running Parse.
C4_ParsedOneWay == [][parsed => parsed']_vars

\* Parsed() is true after a Parse that failed in a later stage and after a
\* call that panicked
C4_Witness ==
    /\ parsed
    /\ ret.kind = "err"
    /\ ret.stage \in {"parse", "post", "required", "validate"}
    /\ lastOp.out = ErrParsed

\* C6 as stated: a structural mutation attempted at any point after Parse
\* has begun fails, from inside a Pre hook and after a Parse that failed in
\* the Pre phase too.  The last call recorded is never a structural
\* mutation that succeeded after the first call of Parse.
C6_FailsOnceBegun ==
    parseBegun /\ lastOp.op \in Structural => lastOp.out # "ok"

\* C6: a structural mutation attempted while Parsed() is true fails and
\* leaves the structure as it was; one attempted while Parsed() is false
\* does not fail with ErrParsed, Parse having begun or not.
C6_FailsOnceParsed ==
    /\ [][parsed /\ CallOf(Structural)
            => lastOp'.out # "ok" /\ Structure' = Structure]_vars
    /\ [][~parsed /\ CallOf(Structural) => lastOp'.out # ErrParsed]_vars

\* a structural mutation failed on the parsed mark while a hook of the
\* running Parse was calling it
C6_Witness ==
    /\ parsed
    /\ pc.in
    /\ lastOp.op \in Structural
    /\ lastOp.out = ErrParsed

\* a structural mutation succeeded after a Parse that failed in the Pre
\* phase
C6_WitnessAfterPre ==
    /\ ~parsed
    /\ parseBegun
    /\ pc.phase = "idle"
    /\ ret.stage = "pre"
    /\ lastOp.op \in Structural
    /\ lastOp.out = "ok"

\* C7 as stated: once Parsed() is true each of the operations panics with
\* ErrParsed and leaves the shape unchanged.
C7_AllPanicErrParsed ==
    [][parsed /\ CallOf(Guarded)
         => lastOp'.out = ErrParsed /\ Shape' = Shape]_vars

\* C7: once Parsed() is true each of the operations leaves the shape
\* unchanged and panics: with ErrParsed, but for SetGroupSeparator with an
\* empty separator, which panics with the error of the empty separator.
C7_Frozen ==
    [][parsed /\ CallOf(Guarded)
         => /\ Shape' = Shape
            /\ \/ lastOp'.out = ErrParsed
               \/ /\ lastOp'.op = "SetGroupSeparator"
                  /\ lastOp'.out = "ErrEmptySeparator"
                  /\ SetGroupSeparator(<<>>)]_vars

\* SetGroupSeparator with a separator that is not empty panicked with
\* ErrParsed after a Parse that returned nil
C7_Witness ==
    /\ parsed
    /\ ret.kind = "ok"
    /\ lastOp.op = "SetGroupSeparator"
    /\ lastOp.out = ErrParsed

-----------------------------------------------------------------------------
(* The priority of a write.                                                *)

\* the option the log k belongs to
Logged(k) == groups[k[1]].opts[k[2]]

\* of the writes a and b, the one with the higher priority
Higher(a, b) == IF a.priority > b.priority THEN a ELSE b

\* the last two writes of the log are of positive, different priorities and
\* no write before them was of a priority above both
PairOn(log) ==
    LET n == Len(log)
    IN  /\ n >= 2
        /\ log[n - 1].priority > 0
        /\ log[n].priority > 0
        /\ log[n - 1].priority # log[n].priority
        /\ \A i \in 1..(n - 2) :
              log[i].priority <= Higher(log[n - 1], log[n]).priority

\* C1: of two writes with the priorities 0 < p1 < p2, made in either order
\* to an option that no higher priority has written, the option holds the
\* value written with p2; and when the last write had priority 0 the
\* option holds its value, whatever was written before.
C1_PriorityMonotonic ==
    \A k \in DOMAIN writeLog :
        LET log == writeLog[k]
            n   == Len(log)
        IN  /\ PairOn(log)
               => Logged(k).value = Higher(log[n - 1], log[n]).value
            /\ n >= 1 /\ log[n].priority = 0
               => Logged(k).value = log[n].value

\* a write of priority p2, then a write of priority p1 < p2 with another
\* value; and then a write of priority 0 with the value of the write that
\* lost
C1_Witness ==
    \E k \in DOMAIN writeLog :
        LET log == writeLog[k]
        IN  /\ Len(log) = 3
            /\ log[1].priority > log[2].priority
            /\ log[2].priority > 0
            /\ log[1].value # log[2].value
            /\ log[3] = [priority |-> 0, value |-> log[2].value]
            /\ Logged(k).value = log[2].value

\* the write of the lower priority came first and the option holds the
\* value of the higher
C1_WitnessAscending ==
    \E k \in DOMAIN writeLog :
        LET log == writeLog[k]
        IN  /\ Len(log) = 2
            /\ 0 < log[1].priority
            /\ log[1].priority < log[2].priority
            /\ log[1].value # log[2].value
            /\ Logged(k).value = log[2].value

-----------------------------------------------------------------------------
(* Goroutines writing one option.                                          *)

\* the goroutines whose call has been through the arbitration and its
\* stores
Arbitrated ==
    {t \in Threads : calls[t].at \in {"unlock", "notify", "done"}
                     /\ calls[t].err = Nil}

\* a goroutine is between the arbitration and the end of its stores
InSection == \E t \in Threads : calls[t].at \in {"arbitrate", "value", "priority"}

\* the orders in which the goroutines of S can be taken
Orders(S) ==
    {f \in [1..Cardinality(S) -> S] :
        \A i, j \in 1..Cardinality(S) : i # j => f[i] # f[j]}

\* the (value, setPriority) pair left by the calls of the goroutines of
\* order, made one after the other from i on, on an option holding pair
RECURSIVE InTurn(_, _, _)
InTurn(pair, order, i) ==
    IF i > Len(order) THEN pair
    ELSE LET c == calls[order[i]]
         IN  InTurn(IF c.priority = 0 \/ c.priority >= pair[2]
                    THEN <<RaceValue(order[i]), c.priority>> ELSE pair,
                    order, i + 1)

\* the (value, setPriority) pair of the option
Stored == <<RaceOpts["o"].value, RaceOpts["o"].priority>>

\* C11: whenever no goroutine is in the middle of its write, the (value,
\* setPriority) pair of the option is the pair of one single call (or the
\* pair of the option as registered), and it is what the calls that have
\* been through the arbitration leave when made one after the other in
\* some order.
C11_Atomic ==
    "o" \in DOMAIN RaceOpts /\ ~InSection
    => /\ \E order \in Orders(Arbitrated) :
              InTurn(<<Nil, 0>>, order, 1) = Stored
       /\ \/ Stored = <<Nil, 0>>
          \/ \E t \in Threads : Stored = <<RaceValue(t), calls[t].priority>>

\* two goroutines have called SetOptValue and returned: the call of the
\* lower priority left the value of the other in place
C11_Witness ==
    /\ Quiet
    /\ \E t, u \in Threads :
          /\ calls[t].at = "done" /\ calls[u].at = "done"
          /\ calls[t].set /\ ~calls[u].set /\ calls[u].err = Nil
          /\ 0 < calls[u].priority
          /\ calls[u].priority < calls[t].priority
          /\ Stored = <<RaceValue(t), calls[t].priority>>

-----------------------------------------------------------------------------
(* The hooks of a parser over the life of the Config.                      *)

\* how often the hook of phase ph of parser p has been invoked
Invoked(ph, p) == Count(ran, [phase |-> ph, who |-> p])

\* C12: over the whole life of the Config the Parse hook and the Post hook
\* of each registered parser are invoked at most once, however often Parse
\* is called.
C12_HooksAtMostOnce ==
    \A p \in Parsers : \A ph \in {"Parse", "Post"} : Invoked(ph, p) <= 1

\* C12, its second half: a Parse call made when Parsed() is true panics
\* with ErrParsed, and no hook is invoked by it.
C12_ParsedPanics ==
    [][parsed /\ CallOf({"Parse"})
         => lastOp'.out = ErrParsed /\ ran' = ran /\ Len(trace') = Len(trace)]_vars

\* a Parse call made when Parsed() was true, after a Parse that returned
\* nil, panicked
C12_Witness ==
    /\ parsed
    /\ ret.kind = "ok"
    /\ ran # <<>>
    /\ lastOp = [op |-> "Parse", out |-> ErrParsed, note |-> <<>>]

-----------------------------------------------------------------------------
(* The order of the parser list.                                           *)

\* the priorities of the parsers
Levels == {Priority(p) : p \in Parsers}

\* the parsers of seq of priority l, in the order they have in seq
OfLevel(seq, l) == SelectSeq(seq, LAMBDA p : Priority(p) = l)

\* seq by ascending priority from the priority l on, the parsers of one
\* priority in the order they have in seq
RECURSIVE ByPriority(_, _)
ByPriority(seq, l) ==
    IF \A k \in Levels : k < l THEN <<>>
    ELSE OfLevel(seq, l) \o ByPriority(seq, l + 1)

\* C13: the parser list is always sorted ascending by Priority(); a call
\* that lengthens it leaves the list by priority of the old list with the
\* new parsers appended, so that parsers of equal priority stay in the
\* order they were added in; any other call leaves it as it is.
C13_SortedStable ==
    /\ [](parsers = ByPriority(parsers, 0))
    /\ [][IF Len(parsers') > Len(parsers)
          THEN \E ps \in Added : parsers' = ByPriority(parsers \o ps, 0)
          ELSE parsers' = parsers]_vars

\* AddParser has left a parser of the lower priority in front of two
\* parsers of one priority, which are not in the order of their names
C13_Witness ==
    /\ parsers = <<"p1", "p3", "p2">>
    /\ lastOp.op = "AddParser"

\* the names of the parsers of seq are distinct
Distinct(seq) == \A i, j \in 1..Len(seq) : i # j => seq[i] # seq[j]

\* C14: RemoveParser(name) called with the names distinct and the Config
\* not parsed: when it returns a parser, the list is one element shorter
\* and holds no parser of that name; when it returns nil, the list is
\* unchanged.
C14_RemoveParserRemoves ==
    [][CallOf({"RemoveParser"}) /\ lastOp'.out = "ok" /\ Distinct(parsers)
         => IF lastOp'.note # <<>>
            THEN /\ Len(parsers') = Len(parsers) - 1
                 /\ \A i \in 1..Len(parsers') : parsers'[i] # lastOp'.note[1]
            ELSE parsers' = parsers]_vars

\* RemoveParser has returned the parser of the name it was given, and the
\* parser is still in the list
C14_Witness ==
    /\ lastOp.op = "RemoveParser"
    /\ lastOp.note # <<>>
    /\ Distinct(parsers)
    /\ HasParser(lastOp.note[1])

-----------------------------------------------------------------------------
(* The groups.                                                             *)

\* C15: in every reachable state, from NewConfig on and after
\* SetDefaultGroupName too, the groups mapping holds the default group:
\* Group("") finds a group and does not panic.
C15_DefaultGroupExists == ~Group(<<>>).panics

\* options were registered in the default group, the default group was
\* renamed, and Group("") panics
C15_Witness ==
    /\ DefaultGroupName \in DOMAIN groups
    /\ "o" \in DOMAIN groups[DefaultGroupName].opts
    /\ groupName # DefaultGroupName
    /\ Group(<<>>).panics

-----------------------------------------------------------------------------
(* The errors of SetOptValue.                                              *)

\* the groups a program names in SetOptValue
Named == {<<>>, <<"a">>}

\* C16: a SetOptValue call with a negative priority, or naming a group that
\* does not exist, returns an error, changes no option and notifies no
\* observer; the error is that of the priority whenever the priority is
\* negative, the group existing or not.
C16_ErrorsChangeNothing ==
    [][lastOp'.op = "SetOptValue"
       => \A g \in Named :
             LET missing == ~getGroupByName(g, FALSE).found
             IN  \A pr \in -1..MaxPriority : \A v \in Values :
                    (pr < 0 \/ missing) /\ SetOptValue(pr, g, "o", v)
                    => /\ lastOp'.out = IF pr < 0 THEN "ErrNegativePriority"
                                        ELSE "ErrNoGroup"
                       /\ lastOp'.note = <<>>
                       /\ groups' = groups]_vars

\* with an observer installed and the option written, a call naming a
\* group that does not exist has returned its error
C16_Witness ==
    /\ watch # Nil
    /\ "o" \in DOMAIN RaceOpts
    /\ RaceOpts["o"].value # Nil
    /\ lastOp = [op |-> "SetOptValue", out |-> "ErrNoGroup", note |-> <<>>]

\* a call with a negative priority naming a group that does not exist has
\* returned the error of the priority
C16_WitnessNegative ==
    /\ ~getGroupByName(<<"a">>, FALSE).found
    /\ ~getGroupByName(<<>>, FALSE).found
    /\ lastOp = [op |-> "SetOptValue", out |-> "ErrNegativePriority",
                 note |-> <<>>]

\* the separator-joined prefixes of path, none for the empty path
Prefixes(path) ==
    IF path = <<>> THEN {}
    ELSE LET segs == Split(path, groupSep)
         IN  {Join(SubSeq(segs, 1, i), groupSep) : i \in 1..Len(segs)}

\* path with the prefix of the default group taken off
Canonical(path) == TrimPrefix(path, groupPrefix)

\* the groups mapping gs after NewGroup(path), path not empty once the
\* prefix of the default group is off
Created(gs, path) == newGroupChain(gs, Split(Canonical(path), groupSep), 1)

\* the groups mapping gs after NewGroup(path), for any path
Regrouped(gs, path) ==
    IF Canonical(path) = <<>> THEN newOptGroup(gs, groupName, groupName)
    ELSE Created(gs, path)

\* NewGroup(path), called on a Config that is not parsed, leaves every
\* prefix of `full` a key of groups and returns the group stored under
\* `full` (the default group when `full` is empty), and a second
\* NewGroup(path) would change nothing
ChainOf(path, full) ==
    ~parsed /\ NewGroup(path)
    => /\ Prefixes(full) \subseteq DOMAIN groups'
       /\ lastOp'.note = getGroupName(full)
       /\ lastOp'.note \in DOMAIN groups'
       /\ groups'[lastOp'.note].fullName = getGroupName(full)
       /\ Regrouped(groups', path) = groups'

Nested == {<<<<"a">>, <<"b">>, <<"c">>>>, <<<<"b">>, <<"x">>, <<"a">>>>,
           <<<<"x">>, <<"x">>, <<"b">>>>}

\* the path of the first i names of segs
PathOf(segs, i) == Join(SubSeq(segs, 1, i), groupSep)

\* C18: from any state of a Config that is not parsed, creating a group
\* three names deep in one call gives the groups mapping (the keys, and
\* the group under each key) that creating its ancestors first, outermost
\* first, and then the group gives.
C18_Associative ==
    ~parsed
    => \A segs \in Nested :
          Created(groups, PathOf(segs, 3))
            = Created(Created(Created(groups, PathOf(segs, 1)),
                              PathOf(segs, 2)),
                      PathOf(segs, 3))

\* the groups mapping is the one NewGroup("a.b.c") makes of an empty
\* mapping, reached by NewGroup("a"), NewGroup("a.b"), NewGroup("a.b.c")
\* and by NewGroup("a.b.c") alone
C18_Witness ==
    /\ ~parsed
    /\ groups = Created(<<>>, <<"a", ".", "b", ".", "c">>)
    /\ DOMAIN groups = {<<"a">>, <<"b">>, <<"c">>, <<"a", ".", "b">>,
                        <<"a", ".", "b", ".", "c">>}

\* the last name of the path, the prefix of the default group off
LastName(path) ==
    LET segs == Split(Canonical(path), groupSep)
    IN  segs[Len(segs)]

C20_SingleObserver ==
    [][/\ \A f \in Observers :
             Observe(f)
             => IF parsed
                THEN lastOp'.out = ErrParsed /\ watch' = watch
                ELSE lastOp'.out = "ok" /\ watch' = f
       /\ (\A f \in Observers : ~Observe(f)) => watch' = watch
       /\ \A pr \in 0..MaxPriority, v \in Values :
             SetOptValue(pr, <<>>, "o", v) /\ lastOp'.note # <<>>
             => watch # Nil /\ lastOp'.note = <<watch, groupName, "o", v>>]_vars

\* f2 was installed in the place of f1, and a write notified f2
C20_Witness ==
    /\ ~parsed
    /\ watch = "f2"
    /\ lastOp.op = "SetOptValue"
    /\ lastOp.note # <<>>
    /\ lastOp.note[1] = "f2"

\* Observe panicked on a parsed Config whose observer is f2
C20_WitnessParsed ==
    /\ parsed
    /\ watch = "f2"
    /\ lastOp.op = "Observe"
    /\ lastOp.out = ErrParsed

-----------------------------------------------------------------------------
(* Writes of equal priority.                                               *)

\* the option "o" of the default group is registered
HasO == groupName \in DOMAIN groups /\ "o" \in DOMAIN groups[groupName].opts

-----------------------------------------------------------------------------
(* Options: newBaseOpt, GetDefault, Parse and the two constructors.        *)

\* the optType values a caller of newBaseOpt passes here, by their names
OptTypes == {"none", "string", "int", "int8"}

\* the defaults a program gives an option
Defaults == {NilValue, IntValue(8080), IntValue(0), StrValue(<<>>),
             StrValue(<<"a">>), StrValue(<<"8", "0">>)}

\* the raw texts a source hands to Parse
Texts == {<<>>, <<"0">>, <<"8", "0">>, <<"-", "7">>, <<"a">>, <<"1", "x">>,
          <<"-">>}

ErrUnsupportedType == "ErrUnsupportedType"

ErrTypeAssertion == "ErrTypeAssertion"

ErrSyntax == "ErrSyntax"

Digits == <<"0", "1", "2", "3", "4", "5", "6", "7", "8", "9">>

IsDigit(c) == \E i \in 1..10 : Digits[i] = c

DigitOf(c) == (CHOOSE i \in 1..10 : Digits[i] = c) - 1

\* the text is decimal digits, after a sign or not
Numeric(text) ==
    LET body == IF text # <<>> /\ text[1] = "-" THEN Tail(text) ELSE text
    IN  body # <<>> /\ \A i \in 1..Len(body) : IsDigit(body[i])

\* the number the decimal digits of body denote
RECURSIVE Number(_)
Number(body) ==
    IF body = <<>> THEN 0
    ELSE 10 * Number(SubSeq(body, 1, Len(body) - 1)) + DigitOf(body[Len(body)])

\* ToInt64(data) of the conversion utilities: the number and the error
ToInt64(data) ==
    IF ~Numeric(data) THEN [n |-> 0, err |-> ErrSyntax]
    ELSE IF data[1] = "-" THEN [n |-> 0 - Number(Tail(data)), err |-> Nil]
    ELSE [n |-> Number(data), err |-> Nil]

\* ToString(data) of the conversion utilities: the string and the error
ToStr(data) == [s |-> data, err |-> Nil]

\* o.Default.(T): whether the type assertion holds
Asserts(value, type) == value.t = type

\* baseOpt.GetDefault: the value returned, or the panic
GetDefault(o) ==
    IF o.default = NilValue THEN [val |-> NilValue, panic |-> Nil]
    ELSE IF o.type \in {"string", "int"}
    THEN IF Asserts(o.default, o.type)
         THEN [val |-> o.default, panic |-> Nil]
         ELSE [val |-> NilValue, panic |-> ErrTypeAssertion]
    ELSE [val |-> NilValue, panic |-> ErrUnsupportedType]

\* baseOpt.Parse: the value and the error returned, or the panic
OptParse(o, data) ==
    IF o.type = "string"
    THEN [val |-> StrValue(ToStr(data).s), err |-> ToStr(data).err, panic |-> Nil]
    ELSE IF o.type = "int"
    THEN IF ToInt64(data).err # Nil
         THEN [val |-> NilValue, err |-> ToInt64(data).err, panic |-> Nil]
         ELSE [val |-> IntValue(ToInt64(data).n), err |-> Nil, panic |-> Nil]
    ELSE [val |-> NilValue, err |-> Nil, panic |-> ErrUnsupportedType]

\* newBaseOpt, called by the constructor `by`: the option, made when the
\* o.GetDefault() call of line 77 returns
newBaseOpt(by, default, optType) ==
    LET o == [by |-> by, made |-> TRUE, type |-> optType, default |-> default,
              panic |-> Nil]
    IN  IF GetDefault(o).panic = Nil THEN o
        ELSE [o EXCEPT !.made = FALSE, !.panic = GetDefault(o).panic]

\* what the functions of the option file leave alone
manager == <<parsed, settings, naming, parsers, parsersCap, watch, groups,
             validators, pc, rng, ret, trace, lastOp, history, calls, mu,
             stack, ran>>

NewStrOpt(default) ==
    /\ option' = newBaseOpt("NewStrOpt", default, "string")
    /\ result' = NoResult
    /\ UNCHANGED manager

NewIntOpt(default) ==
    /\ option' = newBaseOpt("NewIntOpt", default, "string")
    /\ result' = NoResult
    /\ UNCHANGED manager

\* a call of newBaseOpt from inside the package, with any optType
CallNewBaseOpt(default, optType) ==
    /\ option' = newBaseOpt("newBaseOpt", default, optType)
    /\ result' = NoResult
    /\ UNCHANGED manager

\* o.Parse(data) on the option constructed
CallParse(data) ==
    /\ option.made
    /\ result' = [op |-> "Parse", data |-> data,
                  val |-> OptParse(option, data).val,
                  err |-> OptParse(option, data).err,
                  panic |-> OptParse(option, data).panic]
    /\ UNCHANGED <<manager, option>>

\* o.GetDefault() on the option constructed
CallGetDefault ==
    /\ option.made
    /\ result' = [op |-> "GetDefault", data |-> <<>>,
                  val |-> GetDefault(option).val, err |-> Nil,
                  panic |-> GetDefault(option).panic]
    /\ UNCHANGED <<manager, option>>

\* A program that constructs options, with any default, and calls their
\* methods.
NextOpt ==
    \/ \E d \in Defaults : NewStrOpt(d)
    \/ \E d \in Defaults : NewIntOpt(d)
    \/ \E d \in Defaults, ty \in OptTypes : CallNewBaseOpt(d, ty)
    \/ \E data \in Texts : CallParse(data)
    \/ CallGetDefault

SpecOpt == Init /\ [][NextOpt]_vars

\* C21: Parse(data) of an option built by NewIntOpt returns an error when
\* data is not numeric and the int it denotes when it is, and never a
\* string.
C21_IntOptParsesInt ==
    option.by = "NewIntOpt" /\ option.made /\ result.op = "Parse"
    => /\ result.panic = Nil
       /\ result.val.t # "string"
       /\ IF Numeric(result.data)
          THEN result.err = Nil /\ result.val = IntValue(ToInt64(result.data).n)
          ELSE result.err # Nil

\* Parse("a") of an option built by NewIntOpt returned the string "a" and
\* no error
C21_Witness ==
    /\ option.by = "NewIntOpt" /\ option.made
    /\ result.op = "Parse" /\ result.data = <<"a">>
    /\ result.err = Nil /\ result.panic = Nil
    /\ result.val = StrValue(<<"a">>)

\* C22: NewIntOpt with an int default returns an option, and GetDefault of
\* that option returns the default.
C22_IntDefault ==
    option.by = "NewIntOpt" /\ option.default.t = "int"
    => /\ option.made
       /\ result.op = "GetDefault"
          => result.panic = Nil /\ result.val = option.default

\* NewIntOpt with the default 8080 panicked in newBaseOpt
C22_Witness ==
    /\ option.by = "NewIntOpt"
    /\ option.default = IntValue(8080)
    /\ ~option.made
    /\ option.panic = ErrTypeAssertion

\* the optType values GetDefault and Parse have a case for
Supported == {"string", "int"}

\* the default is one an option of the type may have: nil, or a value of
\* the type
Agrees(default, optType) == default = NilValue \/ default.t = optType

-----------------------------------------------------------------------------
(* The names of the default group.                                         *)

\* C27: in every state groupPrefix is groupName followed by groupSep and
\* groupSep is not empty; and SetGroupSeparator("") panics with the error
\* of the empty separator and changes none of the three.
C27_PrefixIsNameAndSeparator ==
    /\ [](groupPrefix = groupName \o groupSep /\ groupSep # <<>>)
    /\ [][SetGroupSeparator(<<>>)
          => lastOp'.out = "ErrEmptySeparator" /\ UNCHANGED naming]_vars

\* the default group was renamed and the separator changed, and then
\* SetGroupSeparator("") panicked
C27_Witness ==
    /\ groupName = <<"g">>
    /\ groupSep = <<"/">>
    /\ groupPrefix = <<"g", "/">>
    /\ lastOp.op = "SetGroupSeparator"
    /\ lastOp.out = "ErrEmptySeparator"

\* C24: two keys of the groups mapping whose groups have the same full
\* name are one group: an option registered under one key is an option,
\* with the same value, under the other.
C24_OneGroupTwoKeys ==
    \A k, a \in DOMAIN groups :
        groups[k].fullName = groups[a].fullName
        => groups[k].opts = groups[a].opts

\* "a.b" was created and the option registered with the name "a.b":
\* Group("b") returns a group of the full name "a.b" that has no option
C24_Witness ==
    /\ {<<"a", ".", "b">>, <<"b">>} \subseteq DOMAIN groups
    /\ ~Group(<<"b">>).panics
    /\ groups[Group(<<"b">>).key].fullName = <<"a", ".", "b">>
    /\ groups[Group(<<"b">>).key].opts = <<>>
    /\ "o" \in DOMAIN groups[Group(<<"a", ".", "b">>).key].opts

\* the names a group is looked up with
Names == {<<>>, <<"a">>, <<"b">>, <<"a", ".", "b">>, <<"DEFAULT">>, <<"g">>,
          <<"DEFAULT", ".", "a">>, <<"g", "/", "a">>}

\* the name n and n after the prefix of the default group address the same
\* group: in the lookups that do not create (Group, HasGroup, SetOptValue)
\* and in those that do (NewGroup, RegisterOpt)
SameGroup(n) ==
    LET p == groupPrefix \o n
    IN  /\ Group(n) = Group(p)
        /\ HasGroup(n) = HasGroup(p)
        /\ getGroupByName(n, FALSE) = getGroupByName(p, FALSE)
        /\ getGroupByName(n, TRUE) = getGroupByName(p, TRUE)

\* the empty name addresses the default group
EmptyIsDefault ==
    /\ getGroupByName(<<>>, FALSE).key = groupName
    /\ getGroupByName(<<>>, TRUE).key = groupName
    /\ groupName \in DOMAIN groups => Group(<<>>) = Group(groupName)

\* C26 as stated: of every name.
C26_PrefixStripped ==
    EmptyIsDefault /\ \A n \in Names : SameGroup(n)

\* C26: the empty name addresses the default group, and every name that
\* does not itself begin with the prefix of the default group addresses
\* the group that the name after the prefix addresses.
C26_PrefixStrippedOnce ==
    EmptyIsDefault
    /\ \A n \in Names : ~HasPrefix(n, groupPrefix) => SameGroup(n)

\* the option was registered in the group "DEFAULT.a" and written in the
\* group "a"
C26_Witness ==
    /\ groupPrefix = <<"DEFAULT", ".">>
    /\ HasGroup(<<"a">>)
    /\ "o" \in DOMAIN groups[<<"a">>].opts
    /\ Len(writeLog[<<<<"a">>, "o">>]) = 1
    /\ lastOp.op = "SetOptValue" /\ lastOp.out = "ok"

====
